---------------------------- MODULE Spec2Model ----------------------------
(***************************************************************************)
(* Model of scripts/build_umap_sample_gallery.py: the gallery generator    *)
(* (collect_entries, build_panel_payload, build_html, build_svg) and the   *)
(* client-side script embedded in the generated HTML (renderAll).          *)
(* Report texts are given by the assignments found in them; their         *)
(* payloads are sequences of characters, decoded by decode_nlist and       *)
(* decode_comlist as the source decodes them.                              *)
(*                                                                         *)
(* Fractions, replicates and coordinates are integers; run ids and         *)
(* sublibrary ids are naturals ordered like the strings they stand for.    *)
(* JavaScript indices are 0-based as in the source (plot-0, plot-1, ...).  *)
(***************************************************************************)
EXTENDS Integers, Sequences, FiniteSets, TLC

(* ------------------------------ bounds -------------------------------- *)

MaxRuns == 2

MaxSublibs == 2

MaxFraction == 2

MaxReplicate == 2

MaxCoord == 2

MaxPoints == 1

\* longest compact-numeric text handed to decode_nlist on its own
MaxTextLen == 5

\* longest payload of a report handed to extract_umap_sample_traces on its own
MaxRawLen == 2

\* most (x, y, label) triples of a report handed to build_panel_payload on its own
MaxTriples == 3

(* --------------------------- program constants ------------------------ *)

\* span = max(span_x, span_y, 1.0)
MinSpan == 1

\* pad = span * 0.04, written PadNum / PadDen
PadNum == 4

PadDen == 100

\* bounds are kept as integers in units of 1 / BoundsScale, so that
\* (min + max) / 2.0 and span / 2.0 + span * 0.04 stay exact
BoundsScale == 2 * PadDen

SAMPLE_COLOR_MAP ==
  [s \in {"xcond_1", "xcond_2", "xcond_3"} |->
     CASE s = "xcond_1" -> "#1f77b4"
       [] s = "xcond_2" -> "#ff7f0e"
       [] s = "xcond_3" -> "#2ca02c"]

SAMPLE_NAME_MAP ==
  [s \in {"xcond_1", "xcond_2", "xcond_3"} |->
     CASE s = "xcond_1" -> "K562"
       [] s = "xcond_2" -> "SK-N-SH"
       [] s = "xcond_3" -> "HEPG2"]

DISPLAY_COLOR_MAP ==
  [n \in {"K562", "SK-N-SH", "HEPG2"} |->
     CASE n = "K562" -> "#1f77b4"
       [] n = "SK-N-SH" -> "#ff7f0e"
       [] n = "HEPG2" -> "#2ca02c"]

\* dict.get(key, default)
DictGet(d, k, default) == IF k \in DOMAIN d THEN d[k] ELSE default

(* ------------------------------ state --------------------------------- *)

VARIABLES
  gridExists,    \* the metadata table file is there
  runsDirExists, \* the runs directory is there
  runDirs,       \* run ids whose own directory is there
  grid,        \* rows of the metadata table (RunMeta records) in table order
  fs,          \* report files: <<run_id, sublib>> -> report text
  pc,          \* position of main()
  outDirs,     \* the parent directories of the two outputs have been made
  entries,     \* collect_entries result
  panels,      \* build_panel_payload result
  htmlOut,     \* written HTML document: its embedded payload, or <<"none">>
  svgOut,      \* written SVG document, or the record with written = FALSE
  bpc,         \* position of the browser script (renderAll)
  dom,         \* children of #gallery in document order
  loopI,       \* i of the plot loop (0-based)
  call,        \* the Plotly.newPlot promise being awaited
  plotCalls,   \* panel indices handed to Plotly.newPlot so far
  plots,       \* figures Plotly has drawn: panel index -> figure
  fnArg,       \* argument of a function called on its own
  fnPc,        \* "ready" before that call, "returned" after it
  fnRet        \* what the call returned

vars == <<gridExists, runsDirExists, runDirs, grid, fs, pc, outDirs, entries, panels,
          htmlOut, svgOut, bpc, dom, loopI, call, plotCalls, plots,
          fnArg, fnPc, fnRet>>

inputVars == <<gridExists, runsDirExists, runDirs, grid, fs>>

mainVars == <<gridExists, runsDirExists, runDirs, grid, fs, pc, outDirs, entries,
              panels, htmlOut, svgOut>>

fnVars == <<fnArg, fnPc, fnRet>>

browserVars == <<bpc, dom, loopI, call, plotCalls, plots>>

(* --------------------------- sequence helpers ------------------------- *)

RECURSIVE SeqFilterIdx(_, _, _)
\* indices k of s (ascending) whose element satisfies the membership set
SeqFilterIdx(s, keep, k) ==
  IF k > Len(s) THEN <<>>
  ELSE (IF s[k] \in keep THEN <<k>> ELSE <<>>) \o SeqFilterIdx(s, keep, k + 1)

RECURSIVE SetToSortedSeq(_)
\* sorted(set) for a set of integers
SetToSortedSeq(S) ==
  IF S = {} THEN <<>>
  ELSE LET m == CHOOSE x \in S : \A y \in S : x <= y
       IN <<m>> \o SetToSortedSeq(S \ {m})

RECURSIVE Concat(_)
Concat(ss) == IF ss = <<>> THEN <<>> ELSE Head(ss) \o Concat(Tail(ss))

Range(s) == {s[k] : k \in DOMAIN s}

Min2(a, b) == IF a <= b THEN a ELSE b

Max2(a, b) == IF a >= b THEN a ELSE b


(* ------------------------------ inputs -------------------------------- *)

Fractions == 1..MaxFraction

Replicates == 1..MaxReplicate

Sublibs == 1..MaxSublibs

Coords == 0..MaxCoord

\* category labels found in reports: one of the lookup tables, one not
Labels == {"xcond_1", "ctl"}

RunMetas(run_id) ==
  [run_id : {run_id}, fraction : Fractions, replicate : Replicates,
   is_reference : BOOLEAN]

\* tables of n rows; run ids are unique (dictionary keys) and are the row numbers
Grids(n) == {g \in [1..n -> UNION {RunMetas(k) : k \in 1..n}] :
               \A k \in 1..n : g[k].run_id = k}

\* the three assignments extract_umap_sample_traces looks for
JsVars == {"umap_x", "umap_y", "samples_raw"}

DigitChars == <<"0", "1", "2", "3", "4", "5", "6", "7", "8", "9">>

RECURSIVE Join(_)
\* ",".join(pieces) for pieces that are sequences of characters
Join(pieces) ==
  IF pieces = <<>> THEN <<>>
  ELSE IF Len(pieces) = 1 THEN pieces[1]
  ELSE pieces[1] \o <<",">> \o Join(Tail(pieces))

\* A report text is given by the assignments found in it: a function from
\* the assigned names to the single-quoted payload of each.  A numeric
\* payload is a sequence of characters; a label payload is a sequence of
\* labels and commas, no two labels adjacent.
ReportText(x_raw, y_raw, samples_raw) ==
  [v \in JsVars |-> CASE v = "umap_x" -> x_raw
                      [] v = "umap_y" -> y_raw
                      [] v = "samples_raw" -> samples_raw]

\* texts of a report whose three lists have n elements, each written plainly
ReportsOfLen(n) ==
  {ReportText(Join([k \in 1..n |-> <<DigitChars[xs[k] + 1]>>]),
              Join([k \in 1..n |-> <<DigitChars[ys[k] + 1]>>]),
              Join([k \in 1..n |-> <<ls[k]>>])) :
     xs \in [1..n -> Coords], ys \in [1..n -> Coords], ls \in [1..n -> Labels]}

PointReports == UNION {ReportsOfLen(n) : n \in 0..MaxPoints}

\* the report used where only the layout is of interest
PlainReport == ReportText(<<"1">>, <<"1">>, <<"xcond_1">>)

(* ------------------------ load_grid / collect_entries ------------------ *)

\* sorted(run_dir.glob(...)) of one run: its sublibraries holding a report
RunSublibs(files, run_id) ==
  SetToSortedSeq({sl \in Sublibs : <<run_id, sl>> \in DOMAIN files})

GalleryEntry(meta, sl) ==
  [run_id |-> meta.run_id, sublib |-> sl, fraction |-> meta.fraction,
   replicate |-> meta.replicate, is_reference |-> meta.is_reference]

RECURSIVE CollectEntriesUntilGap(_, _, _)
\* faulty variant: the loop over the runs ends at the first run whose
\* directory is absent or holds no report
CollectEntriesUntilGap(dirs, grid_meta, files) ==
  IF grid_meta = <<>> THEN <<>>
  ELSE LET sls == RunSublibs(files, Head(grid_meta).run_id)
       IN IF Head(grid_meta).run_id \notin dirs \/ sls = <<>> THEN <<>>
          ELSE [j \in 1..Len(sls) |-> GalleryEntry(Head(grid_meta), sls[j])]
                 \o CollectEntriesUntilGap(dirs, Tail(grid_meta), files)

\* for run_id, meta in grid_meta.items(): if not run_dir.exists(): continue;
\* for report_path in sorted(glob)
collect_entries(dirs, grid_meta, files) ==
  Concat([k \in 1..Len(grid_meta) |->
            IF grid_meta[k].run_id \notin dirs THEN <<>>
            ELSE LET sls == RunSublibs(files, grid_meta[k].run_id)
                 IN [j \in 1..Len(sls) |-> GalleryEntry(grid_meta[k], sls[j])]])

(* ------------------------------ sorting -------------------------------- *)

_sort_key(e) ==
  <<IF e.is_reference THEN 0 ELSE 1, e.fraction, e.replicate, e.sublib>>

RECURSIVE TupleLess(_, _)
\* Python tuple comparison a < b for tuples of integers of equal length
TupleLess(a, b) ==
  IF a = <<>> THEN FALSE
  ELSE IF Head(a) # Head(b) THEN Head(a) < Head(b)
  ELSE TupleLess(Tail(a), Tail(b))

RECURSIVE InsertSorted(_, _)
\* insert e behind every element that does not sort after it (stable)
InsertSorted(e, s) ==
  IF s = <<>> THEN <<e>>
  ELSE IF TupleLess(_sort_key(e), _sort_key(Head(s))) THEN <<e>> \o s
  ELSE <<Head(s)>> \o InsertSorted(e, Tail(s))

RECURSIVE SortedEntries(_)
\* sorted(entries, key=_sort_key)
SortedEntries(es) ==
  IF es = <<>> THEN <<>>
  ELSE InsertSorted(es[Len(es)], SortedEntries(SubSeq(es, 1, Len(es) - 1)))

(* ------------------------------ grouping ------------------------------- *)

RECURSIVE FirstSeen(_)
\* keys of the OrderedDict `grouped`: labels in order of first occurrence
FirstSeen(samples) ==
  IF samples = <<>> THEN <<>>
  ELSE LET before == FirstSeen(SubSeq(samples, 1, Len(samples) - 1))
           last == samples[Len(samples)]
       IN IF last \in Range(before) THEN before ELSE Append(before, last)

\* faulty variant: the values of a group come out last first
GroupOfReversed(v, samples, label) ==
  LET idx == SeqFilterIdx(samples, {label}, 1)
  IN [k \in 1..Len(idx) |-> v[idx[Len(idx) + 1 - k]]]

\* the values of v at the positions where samples carries the label
GroupOf(v, samples, label) ==
  LET idx == SeqFilterIdx(samples, {label}, 1)
  IN [k \in 1..Len(idx) |-> v[idx[k]]]

\* faulty variant: a label without a display name is shown as "unknown"
TraceUnknownRenamed(sample, gx, gy) ==
  [name |-> DictGet(SAMPLE_NAME_MAP, sample, "unknown"),
   x |-> gx, y |-> gy,
   color |-> DictGet(SAMPLE_COLOR_MAP, sample, "None")]

Trace(sample, gx, gy) ==
  [name |-> DictGet(SAMPLE_NAME_MAP, sample, sample),
   x |-> gx, y |-> gy,
   color |-> DictGet(SAMPLE_COLOR_MAP, sample, "None")]

(* ------------------------------ decoders ------------------------------- *)

RECURSIVE Split(_, _)
\* str.split(sep): the pieces of s between the occurrences of sep
Split(s, sep) ==
  IF sep \notin Range(s) THEN <<s>>
  ELSE LET k == CHOOSE i \in 1..Len(s) :
                   s[i] = sep /\ \A j \in 1..(i - 1) : s[j] # sep
       IN <<SubSeq(s, 1, k - 1)>> \o Split(SubSeq(s, k + 1, Len(s)), sep)

\* str.split(sep, 1) of a string that holds sep: around its first occurrence
SplitOnce(s, sep) ==
  LET k == CHOOSE i \in 1..Len(s) :
             s[i] = sep /\ \A j \in 1..(i - 1) : s[j] # sep
  IN <<SubSeq(s, 1, k - 1), SubSeq(s, k + 1, Len(s))>>

IsDigits(s) == s # <<>> /\ \A k \in 1..Len(s) : s[k] \in Range(DigitChars)

RECURSIVE DigitsValue(_)
DigitsValue(s) ==
  IF s = <<>> THEN 0
  ELSE 10 * DigitsValue(SubSeq(s, 1, Len(s) - 1))
       + (CHOOSE d \in 0..9 : DigitChars[d + 1] = s[Len(s)])

\* a decimal literal with an optional leading minus sign; ok = FALSE stands
\* for the ValueError raised on anything else
SignedDecimal(s) ==
  LET neg == s # <<>> /\ s[1] = "-"
      body == IF neg THEN Tail(s) ELSE s
  IN IF IsDigits(body)
     THEN [ok |-> TRUE,
           val |-> IF neg THEN 0 - DigitsValue(body) ELSE DigitsValue(body)]
     ELSE [ok |-> FALSE, val |-> 0]

\* int(count_s) on strings of digits, minus signs and other characters
int(s) == SignedDecimal(s)

\* faulty variant: every string is taken for the number zero
FloatLenient(s) ==
  IF SignedDecimal(s).ok THEN SignedDecimal(s) ELSE [ok |-> TRUE, val |-> 0]

\* float(num_s) on strings of digits, minus signs and other characters
float(s) == SignedDecimal(s)

\* faulty variant: the repeat count is ignored
RepeatOnce(num, count) == <<num>>

\* [num] * count: empty for a count of zero or less
Repeat(num, count) == [k \in 1..count |-> num]

\* one pass of the loop body of decode_nlist
DecodeWord(word) ==
  IF word = <<>> THEN [ok |-> TRUE, values |-> <<>>]
  ELSE LET hasx == "x" \in Range(word)
           num_s == IF hasx THEN SplitOnce(word, "x")[1] ELSE word
           count == IF hasx THEN int(SplitOnce(word, "x")[2])
                    ELSE [ok |-> TRUE, val |-> 1]
           num == float(num_s)
       IN IF ~count.ok \/ ~num.ok THEN [ok |-> FALSE, values |-> <<>>]
          ELSE [ok |-> TRUE, values |-> Repeat(num.val, count.val)]

\* ok = FALSE stands for the ValueError of int() or float(): the values
\* appended so far are lost with the frame
decode_nlist(raw_str) ==
  IF raw_str = <<>> THEN [ok |-> TRUE, values |-> <<>>]
  ELSE LET words == Split(raw_str, ",")
           dec == [k \in 1..Len(words) |-> DecodeWord(words[k])]
       IN IF \E k \in 1..Len(words) : ~dec[k].ok
          THEN [ok |-> FALSE, values |-> <<>>]
          ELSE [ok |-> TRUE,
                values |-> Concat([k \in 1..Len(words) |-> dec[k].values])]

\* faulty variant: empty pieces are skipped as decode_nlist skips them
DecodeComlistSkipEmpty(raw_str) ==
  LET words == Split(raw_str, ",")
      idx == SeqFilterIdx([k \in 1..Len(words) |-> words[k] # <<>>], {TRUE}, 1)
  IN [k \in 1..Len(idx) |-> words[idx[k]][1]]

\* raw_str.split(","): a piece is one label, or the empty string
decode_comlist(raw_str) ==
  IF raw_str = <<>> THEN <<>>
  ELSE LET words == Split(raw_str, ",")
       IN [k \in 1..Len(words) |->
             IF words[k] = <<>> THEN "" ELSE words[k][1]]

\* faulty variant: an assignment that is not found reads as an empty payload
ExtractOrEmpty(text, var_name) ==
  IF var_name \in DOMAIN text
  THEN [ok |-> TRUE, value |-> text[var_name]]
  ELSE [ok |-> TRUE, value |-> <<>>]

\* re.search of the assignment; ok = FALSE stands for the ValueError
_extract_js_single_quoted(text, var_name) ==
  IF var_name \in DOMAIN text
  THEN [ok |-> TRUE, value |-> text[var_name]]
  ELSE [ok |-> FALSE, value |-> <<>>]

(* ----------------------- extract_umap_sample_traces -------------------- *)

ExtractFailed(why) == [ok |-> FALSE, err |-> why, traces |-> <<>>]

\* faulty variant: the three lists are cut to the shortest
GroupTruncated(xs, ys, samples) ==
  LET n == Min2(Len(xs), Min2(Len(ys), Len(samples)))
      keys == FirstSeen(SubSeq(samples, 1, n))
  IN [ok |-> TRUE, err |-> "none",
      traces |-> [k \in 1..Len(keys) |->
                    Trace(keys[k],
                          GroupOf(SubSeq(xs, 1, n), SubSeq(samples, 1, n), keys[k]),
                          GroupOf(SubSeq(ys, 1, n), SubSeq(samples, 1, n), keys[k]))]]

\* the length check and the grouping into traces
GroupChecked(xs, ys, samples) ==
  IF ~(Len(xs) = Len(ys) /\ Len(ys) = Len(samples))
  THEN ExtractFailed("length mismatch")
  ELSE LET keys == FirstSeen(samples)
       IN [ok |-> TRUE, err |-> "none",
           traces |-> [k \in 1..Len(keys) |->
                         Trace(keys[k],
                               GroupOf(xs, samples, keys[k]),
                               GroupOf(ys, samples, keys[k]))]]

\* ok = FALSE stands for the ValueError that leaves the function
extract_umap_sample_traces(text) ==
  LET x_raw == _extract_js_single_quoted(text, "umap_x")
      y_raw == _extract_js_single_quoted(text, "umap_y")
      samples_raw == _extract_js_single_quoted(text, "samples_raw")
      xs == decode_nlist(x_raw.value)
      ys == decode_nlist(y_raw.value)
      samples == decode_comlist(samples_raw.value)
  IN IF ~x_raw.ok \/ ~y_raw.ok \/ ~samples_raw.ok
     THEN ExtractFailed("not found")
     ELSE IF ~xs.ok \/ ~ys.ok THEN ExtractFailed("not a number")
     ELSE GroupChecked(xs.values, ys.values, samples)

(* --------------------------- build_panel_payload ----------------------- *)

RECURSIVE SumLens(_)
SumLens(traces) ==
  IF traces = <<>> THEN 0 ELSE Len(Head(traces).x) + SumLens(Tail(traces))

Panel(e, traces) ==
  [run_id |-> e.run_id, sublib |-> e.sublib, fraction |-> e.fraction,
   replicate |-> e.replicate, is_reference |-> e.is_reference,
   n_traces |-> Len(traces), n_points |-> SumLens(traces), traces |-> traces]

\* faulty variant: a report whose extraction fails is left out
PayloadOfGoodReports(es, files) ==
  LET sorted == SortedEntries(es)
      good == SeqFilterIdx(
                [k \in 1..Len(sorted) |->
                   extract_umap_sample_traces(
                     files[<<sorted[k].run_id, sorted[k].sublib>>]).ok],
                {TRUE}, 1)
  IN [ok |-> TRUE,
      panels |-> [k \in 1..Len(good) |->
                    Panel(sorted[good[k]],
                          extract_umap_sample_traces(
                            files[<<sorted[good[k]].run_id,
                                    sorted[good[k]].sublib>>]).traces)]]

build_panel_payload(es, files) ==
  LET sorted == SortedEntries(es)
      ex == [k \in 1..Len(sorted) |->
               extract_umap_sample_traces(files[<<sorted[k].run_id, sorted[k].sublib>>])]
  IN IF \E k \in 1..Len(sorted) : ~ex[k].ok
     THEN [ok |-> FALSE, panels |-> <<>>]
     ELSE [ok |-> TRUE,
           panels |-> [k \in 1..Len(sorted) |-> Panel(sorted[k], ex[k].traces)]]

(* ------------------------- _global_square_bounds ----------------------- *)

\* _iter_panel_points: zip(trace x, trace y) over every trace of every panel
TracePoints(t) == {<<t.x[k], t.y[k]>> : k \in 1..Min2(Len(t.x), Len(t.y))}

PanelPoints(p) == UNION {TracePoints(p.traces[k]) : k \in 1..Len(p.traces)}

_iter_panel_points(ps) == UNION {PanelPoints(ps[k]) : k \in 1..Len(ps)}

\* stands for "no coordinate window" in elements that carry none
NoBounds == [min_x |-> 0, max_x |-> 0, min_y |-> 0, max_y |-> 0]

SetMin(S) == CHOOSE x \in S : \A y \in S : x <= y

SetMax(S) == CHOOSE x \in S : \A y \in S : x >= y

\* (min_x, max_x, min_y, max_y) in units of 1 / BoundsScale
\* faulty variant: without points the bounds are the square from 0 to 1
GlobalSquareBoundsUnit(pts) ==
  IF pts = {}
  THEN [min_x |-> 0, max_x |-> BoundsScale, min_y |-> 0, max_y |-> BoundsScale]
  ELSE LET min_x == SetMin({q[1] : q \in pts})
           max_x == SetMax({q[1] : q \in pts})
           min_y == SetMin({q[2] : q \in pts})
           max_y == SetMax({q[2] : q \in pts})
           span == Max2(Max2(max_x - min_x, max_y - min_y), MinSpan)
           cx == PadDen * (min_x + max_x)
           cy == PadDen * (min_y + max_y)
           half == PadDen * span + 2 * PadNum * span
       IN [min_x |-> cx - half, max_x |-> cx + half,
           min_y |-> cy - half, max_y |-> cy + half]

GlobalSquareBoundsOf(pts) ==
  IF pts = {}
  THEN [min_x |-> -BoundsScale, max_x |-> BoundsScale,
        min_y |-> -BoundsScale, max_y |-> BoundsScale]
  ELSE LET min_x == SetMin({q[1] : q \in pts})
           max_x == SetMax({q[1] : q \in pts})
           min_y == SetMin({q[2] : q \in pts})
           max_y == SetMax({q[2] : q \in pts})
           span == Max2(Max2(max_x - min_x, max_y - min_y), MinSpan)
           cx == PadDen * (min_x + max_x)
           cy == PadDen * (min_y + max_y)
           half == PadDen * span + 2 * PadNum * span
       IN [min_x |-> cx - half, max_x |-> cx + half,
           min_y |-> cy - half, max_y |-> cy + half]

\* faulty variant: the points of reference panels are left out of the bounds
GlobalSquareBoundsNonRef(ps) ==
  GlobalSquareBoundsOf(
    UNION {PanelPoints(ps[k]) : k \in {j \in 1..Len(ps) : ~ps[j].is_reference}})

_global_square_bounds(ps) == GlobalSquareBoundsOf(_iter_panel_points(ps))

(* -------------------------------- build_svg ---------------------------- *)

\* positions (1-based) of the panels with / without the reference flag
RefIdx(ps) == SeqFilterIdx(ps, {p \in Range(ps) : p.is_reference}, 1)

NonRefIdx(ps) == SeqFilterIdx(ps, {p \in Range(ps) : ~p.is_reference}, 1)

\* faulty variant: reference panels add their fraction to the rows
FractionsOfAllPanels(ps) ==
  SetToSortedSeq({ps[k].fraction : k \in 1..Len(ps)})

PanelFractions(ps) ==
  SetToSortedSeq({ps[k].fraction : k \in Range(NonRefIdx(ps))})

PanelReplicates(ps) ==
  SetToSortedSeq({ps[k].replicate : k \in Range(NonRefIdx(ps))})

KeyIdx(ps, frac, rep) ==
  {k \in Range(NonRefIdx(ps)) : ps[k].fraction = frac /\ ps[k].replicate = rep}

\* {(fraction, replicate): p for p in non_ref_panels}.get((frac, rep)):
\* a later panel overwrites an earlier one; 0 stands for None
panel_by_key(ps, frac, rep) ==
  IF KeyIdx(ps, frac, rep) = {} THEN 0 ELSE SetMax(KeyIdx(ps, frac, rep))

\* trace.get("marker").get("color") or DISPLAY_COLOR_MAP.get(name, "#666")
SvgFill(t) ==
  IF t.color # "None" THEN t.color ELSE DictGet(DISPLAY_COLOR_MAP, t.name, "#666")

\* lengths of build_svg and _svg_panel, in pixels
margin == 18

top_h == 42

legend_h == 28

section_gap == 14

gap == 10

row_head_w == 88

col_head_h == 34

panel_w == 300

panel_h == 300

ref_label_h == 20

ref_row_gap == 8

header_h == 34

pad == 10

\* the 6.0 between the header and the plot rectangle
header_gap == 6

plot_w == panel_w - 2 * pad

plot_h == panel_h - header_h - header_gap - pad

\* coordinates are written with two decimals: circle centres are kept in
\* hundredths of a pixel
Hundredths == 100

\* the plot rectangle of a panel drawn at (x0, y0), in pixels
PlotRect(x0, y0) ==
  [x |-> x0 + pad, y |-> y0 + header_h + header_gap, w |-> plot_w, h |-> plot_h]

NoPlotRect == [x |-> 0, y |-> 0, w |-> 0, h |-> 0]

\* faulty variant: the larger of the two ratios is taken
SvgScaleMax(bounds) ==
  LET span_x == bounds.max_x - bounds.min_x
      span_y == bounds.max_y - bounds.min_y
  IN IF plot_w * span_y >= plot_h * span_x
     THEN [num |-> plot_w, den |-> span_x]
     ELSE [num |-> plot_h, den |-> span_y]

\* scale = min(plot_w / span_x, plot_h / span_y): num pixels for a span of
\* den, the spans being held in units of 1 / BoundsScale. The floor 1e-9 of
\* the spans is below every span _global_square_bounds returns.
SvgScale(bounds) ==
  LET span_x == bounds.max_x - bounds.min_x
      span_y == bounds.max_y - bounds.min_y
  IN IF plot_w * span_y <= plot_h * span_x
     THEN [num |-> plot_w, den |-> span_x]
     ELSE [num |-> plot_h, den |-> span_y]

\* a / d to the nearest integer, a tie going to the even one (format .2f
\* of a value that the float holds exactly)
RoundDiv(a, d) ==
  LET q == a \div d
      r == a % d
  IN IF 2 * r < d THEN q
     ELSE IF 2 * r > d THEN q + 1
     ELSE IF q % 2 = 0 THEN q ELSE q + 1

\* px = x_off + (x - min_x) * scale and py = y_off + (max_y - y) * scale of
\* the data point (x, y), with x_off = plot_x + (plot_w - span_x * scale) / 2
\* and y_off likewise, as written into cx and cy
SvgCircle(x, y, x0, y0, bounds) ==
  LET sc == SvgScale(bounds)
      span_x == bounds.max_x - bounds.min_x
      span_y == bounds.max_y - bounds.min_y
      rect == PlotRect(x0, y0)
      half == Hundredths \div 2
      \* twice px and twice py, in units of 1 / sc.den
      px == (2 * rect.x + rect.w) * sc.den - span_x * sc.num
              + 2 * (x * BoundsScale - bounds.min_x) * sc.num
      py == (2 * rect.y + rect.h) * sc.den - span_y * sc.num
              + 2 * (bounds.max_y - y * BoundsScale) * sc.num
  IN <<RoundDiv(half * px, sc.den), RoundDiv(half * py, sc.den)>>

\* the circles of a trace: for x, y in zip(xs, ys)
SvgCircles(t, x0, y0, bounds) ==
  [q \in 1..Min2(Len(t.x), Len(t.y)) |->
     SvgCircle(t.x[q], t.y[q], x0, y0, bounds)]

\* _svg_panel: idx is the 0-based position of the drawn panel in the list
SvgPanel(ps, k, x0, y0, bounds, clip) ==
  [kind |-> "panel", idx |-> k - 1, run_id |-> ps[k].run_id,
   frac |-> ps[k].fraction, rep |-> ps[k].replicate,
   n_points |-> ps[k].n_points, clip |-> clip, window |-> bounds,
   fills |-> [j \in 1..Len(ps[k].traces) |-> SvgFill(ps[k].traces[j])],
   points |-> [j \in 1..Len(ps[k].traces) |-> TracePoints(ps[k].traces[j])],
   plot |-> PlotRect(x0, y0),
   circles |-> [j \in 1..Len(ps[k].traces) |->
                  SvgCircles(ps[k].traces[j], x0, y0, bounds)]]

SvgOther(kind, frac, rep) ==
  [kind |-> kind, idx |-> -1, run_id |-> 0, frac |-> frac, rep |-> rep,
   n_points |-> 0, clip |-> 0, window |-> NoBounds, fills |-> <<>>, points |-> <<>>,
   plot |-> NoPlotRect, circles |-> <<>>]

\* y of the reference row
RefRowY == margin + top_h + legend_h + section_gap + ref_label_h

\* matrix_y: below the reference row when there is one
MatrixY(ps) ==
  margin + top_h + legend_h + section_gap
    + (IF RefIdx(ps) # <<>>
       THEN ref_label_h + panel_h + ref_row_gap + section_gap ELSE 0)

\* xp and yr of the matrix cell in column c and row r (0-based)
CellX(c) == margin + row_head_w + c * (panel_w + gap)

CellY(ps, r) == MatrixY(ps) + col_head_h + r * (panel_h + gap)

\* the reference row: clip ids 1 .. len(ref_panels)
SvgRefRow(ps, bounds) ==
  LET ref == RefIdx(ps)
  IN [i \in 1..Len(ref) |->
        SvgPanel(ps, ref[i], CellX(i - 1), RefRowY, bounds, i)]

RECURSIVE SvgMatrixCellsSkipMissing(_, _, _, _, _, _)
\* faulty variant: a key without a panel emits nothing instead of a placeholder
SvgMatrixCellsSkipMissing(ps, fracs, reps, bounds, n, clip) ==
  IF n >= Len(fracs) * Len(reps) THEN <<>>
  ELSE LET frac == fracs[(n \div Len(reps)) + 1]
           rep == reps[(n % Len(reps)) + 1]
           k == IF KeyIdx(ps, frac, rep) = {} THEN 0
                ELSE SetMax(KeyIdx(ps, frac, rep))
           head == IF n % Len(reps) = 0
                   THEN <<SvgOther("rowhead", frac, 0)>> ELSE <<>>
       IN IF k = 0
          THEN head \o SvgMatrixCellsSkipMissing(ps, fracs, reps, bounds, n + 1, clip)
          ELSE head \o <<SvgPanel(ps, k, CellX(n % Len(reps)),
                                   CellY(ps, n \div Len(reps)), bounds, clip + 1)>>
                 \o SvgMatrixCellsSkipMissing(ps, fracs, reps, bounds, n + 1, clip + 1)

RECURSIVE SvgMatrixCells(_, _, _, _, _, _)
\* the cells of the matrix rows from cell number n (row-major, 0-based) on;
\* clip is clip_counter before the cell
SvgMatrixCells(ps, fracs, reps, bounds, n, clip) ==
  IF n >= Len(fracs) * Len(reps) THEN <<>>
  ELSE LET frac == fracs[(n \div Len(reps)) + 1]
           rep == reps[(n % Len(reps)) + 1]
           k == panel_by_key(ps, frac, rep)
           head == IF n % Len(reps) = 0
                   THEN <<SvgOther("rowhead", frac, 0)>> ELSE <<>>
       IN IF k = 0
          THEN head \o <<SvgOther("missing", frac, rep)>>
                 \o SvgMatrixCells(ps, fracs, reps, bounds, n + 1, clip)
          ELSE head \o <<SvgPanel(ps, k, CellX(n % Len(reps)),
                                   CellY(ps, n \div Len(reps)), bounds, clip + 1)>>
                 \o SvgMatrixCells(ps, fracs, reps, bounds, n + 1, clip + 1)

build_svg(ps) ==
  LET fracs == PanelFractions(ps)
      reps == PanelReplicates(ps)
      bounds == _global_square_bounds(ps)
  IN [written |-> TRUE, bounds |-> bounds, rows |-> fracs, cols |-> reps,
      elems |-> SvgRefRow(ps, bounds)
                  \o <<SvgOther("corner", 0, 0)>>
                  \o [c \in 1..Len(reps) |-> SvgOther("colhead", 0, reps[c])]
                  \o SvgMatrixCells(ps, fracs, reps, bounds, 0, Len(RefIdx(ps)))]

NoSvg == [written |-> FALSE, bounds |-> NoBounds, rows |-> <<>>, cols |-> <<>>,
          elems |-> <<>>]

(* ------------------------------- build_html ---------------------------- *)

\* json.dumps of the panel list: None becomes null, the rest keeps its value
JsonDumps(ps) ==
  [k \in 1..Len(ps) |->
     [ps[k] EXCEPT !.traces =
        [j \in 1..Len(ps[k].traces) |->
           [ps[k].traces[j] EXCEPT !.color = IF @ = "None" THEN "null" ELSE @]]]]

build_html(ps) == [written |-> TRUE, payload |-> JsonDumps(ps)]

NoHtml == [written |-> FALSE, payload |-> <<>>]

(* ------------------- the embedded script: renderAll layout -------------- *)

\* faulty variant: a card is made with the status 'ready'
makePanelCardReady(p, i) ==
  [kind |-> "card", idx |-> i, frac |-> p.fraction, rep |-> p.replicate,
   status |-> "ready", host |-> ""]

\* makePanelCard(p, i): a card with status 'rendering' and the host plot-i
makePanelCard(p, i) ==
  [kind |-> "card", idx |-> i, frac |-> p.fraction, rep |-> p.replicate,
   status |-> "rendering", host |-> ""]

DomOther(kind, frac, rep) ==
  [kind |-> kind, idx |-> -1, frac |-> frac, rep |-> rep,
   status |-> "", host |-> ""]

\* matrixByKey.get(key): the first panel of the key is kept; 0 stands for undefined
matrixByKey(ps, frac, rep) ==
  IF KeyIdx(ps, frac, rep) = {} THEN 0 ELSE SetMin(KeyIdx(ps, frac, rep))

DomRefRow(ps) ==
  LET ref == RefIdx(ps)
  IN [i \in 1..Len(ref) |-> makePanelCard(ps[ref[i]], ref[i] - 1)]

RECURSIVE DomMatrixCells(_, _, _, _)
\* matrix children of the rows, from cell number n (row-major, 0-based) on
DomMatrixCells(ps, fracs, reps, n) ==
  IF n >= Len(fracs) * Len(reps) THEN <<>>
  ELSE LET frac == fracs[(n \div Len(reps)) + 1]
           rep == reps[(n % Len(reps)) + 1]
           k == matrixByKey(ps, frac, rep)
           head == IF n % Len(reps) = 0
                   THEN <<DomOther("matrix-rowhead", frac, 0)>> ELSE <<>>
       IN head
            \o <<IF k = 0 THEN DomOther("matrix-empty", frac, rep)
                 ELSE makePanelCard(ps[k], k - 1)>>
            \o DomMatrixCells(ps, fracs, reps, n + 1)

\* renderAll up to gallery.replaceChildren(frag)
RenderLayout(ps) ==
  LET fracs == PanelFractions(ps)
      reps == PanelReplicates(ps)
  IN DomRefRow(ps)
       \o <<DomOther("matrix-corner", 0, 0)>>
       \o [c \in 1..Len(reps) |-> DomOther("matrix-colhead", 0, reps[c])]
       \o DomMatrixCells(ps, fracs, reps, 0)

\* document.getElementById('plot-' + i): position in dom of the first element
\* with that id, 0 for null
getElementById(d, i) ==
  LET hit == {k \in 1..Len(d) : d[k].kind = "card" /\ d[k].idx = i}
  IN IF hit = {} THEN 0 ELSE SetMin(hit)

(* ------------------------ the plotting library ------------------------- *)

\* Plotly's default colorway, used for a trace whose marker.color is null
PlotlyColorway ==
  <<"#1f77b4", "#ff7f0e", "#2ca02c", "#d62728", "#9467bd",
    "#8c564b", "#e377c2", "#7f7f7f", "#bcbd22", "#17becf">>

\* axis range of a figure whose layout gives none: taken from the figure's own
\* data (marker padding left out); in units of 1 / BoundsScale
AutoRange(vals, emptyMax) ==
  IF vals = {} THEN <<-BoundsScale, emptyMax * BoundsScale>>
  ELSE IF SetMin(vals) = SetMax(vals)
       THEN <<(SetMin(vals) - 1) * BoundsScale, (SetMax(vals) + 1) * BoundsScale>>
       ELSE <<SetMin(vals) * BoundsScale, SetMax(vals) * BoundsScale>>

\* what Plotly.newPlot(host, p.traces, baseLayout(), ...) draws
PlotlyFigure(p) ==
  LET pts == PanelPoints(p)
      rx == AutoRange({q[1] : q \in pts}, 6)
      ry == AutoRange({q[2] : q \in pts}, 4)
  IN [window |-> [min_x |-> rx[1], max_x |-> rx[2],
                  min_y |-> ry[1], max_y |-> ry[2]],
      colors |-> [j \in 1..Len(p.traces) |->
                    IF p.traces[j].color = "null"
                    THEN PlotlyColorway[((j - 1) % Len(PlotlyColorway)) + 1]
                    ELSE p.traces[j].color],
      names |-> [j \in 1..Len(p.traces) |-> p.traces[j].name]]

(* ------------------------------- main() -------------------------------- *)

\* report files of runs 1..n: any set of (run, sublibrary) places, each
\* holding a report taken from pool
Files(n, pool) ==
  UNION {[S -> pool] : S \in SUBSET ((1..n) \X Sublibs)}

BrowserInit ==
  /\ bpc = "closed"
  /\ dom = <<>>
  /\ loopI = 0
  /\ call = "none"
  /\ plotCalls = <<>>
  /\ plots = <<>>

MainInit ==
  /\ pc = "start"
  /\ outDirs = FALSE
  /\ entries = <<>>
  /\ panels = <<>>
  /\ htmlOut = NoHtml
  /\ svgOut = NoSvg

\* no function is called on its own
FnIdle ==
  /\ fnArg = <<>>
  /\ fnPc = "idle"
  /\ fnRet = <<>>

\* a report in which the samples_raw assignment is not found
ReportWithoutLabels == [v \in {"umap_x", "umap_y"} |-> <<"1">>]

\* the runs that have a report file, hence a directory
RunsWithFiles(files) == {place[1] : place \in DOMAIN files}

\* any table of up to MaxRuns runs, any set of reports below them, any set
\* of run directories that holds the runs with a report; a table file that
\* is absent has no rows, a runs directory that is absent holds nothing
Init ==
  /\ gridExists \in BOOLEAN
  /\ runsDirExists \in BOOLEAN
  /\ \E n \in 0..MaxRuns :
       /\ grid \in Grids(n)
       /\ fs \in Files(n, {PlainReport, ReportWithoutLabels})
       /\ runDirs \in {d \in SUBSET (1..n) : RunsWithFiles(fs) \subseteq d}
  /\ ~gridExists => grid = <<>>
  /\ ~runsDirExists => runDirs = {}
  /\ MainInit
  /\ BrowserInit
  /\ FnIdle

\* two runs of one sublibrary each: the first report holds any points, the
\* second the plain report
GeomGrids ==
  {g \in Grids(2) : g[1].fraction = 1 /\ g[1].replicate = 1
                      /\ g[2].fraction = 1 /\ ~g[2].is_reference}

FilesAt(place, pool) == {<<>>} \cup {place :> r : r \in pool}

GeomFiles ==
  {a @@ b : a \in FilesAt(<<1, 1>>, PointReports),
            b \in FilesAt(<<2, 1>>, {PlainReport})}

InitGeom ==
  /\ gridExists = TRUE
  /\ runsDirExists = TRUE
  /\ runDirs = 1..2
  /\ grid \in GeomGrids
  /\ fs \in GeomFiles
  /\ MainInit
  /\ BrowserInit
  /\ FnIdle

\* grid_path.open raises FileNotFoundError
GridMissing == ~gridExists

\* faulty variant: the runs directory is not looked at
RunsDirAssumed == FALSE

\* if not runs_dir.exists(): raise FileNotFoundError
RunsDirMissing == ~runsDirExists

\* faulty variant: an empty list of entries is carried on
NoEntriesIgnored(es) == FALSE

\* if not entries: raise SystemExit(message)
NoEntries(es) == es = <<>>

\* load_grid, then mkdir of the parent directories of the two outputs
LoadGrid ==
  /\ pc = "start"
  /\ IF GridMissing
     THEN pc' = "missing input" /\ outDirs' = outDirs
     ELSE pc' = "loaded" /\ outDirs' = TRUE
  /\ UNCHANGED inputVars
  /\ UNCHANGED <<entries, panels, htmlOut, svgOut>>
  /\ UNCHANGED browserVars
  /\ UNCHANGED fnVars

\* collect_entries and the check for an empty result (SystemExit)
CollectEntries ==
  /\ pc = "loaded"
  /\ IF RunsDirMissing
     THEN pc' = "missing input" /\ entries' = entries
     ELSE /\ entries' = collect_entries(runDirs, grid, fs)
          /\ pc' = IF NoEntries(entries') THEN "exit" ELSE "collected"
  /\ UNCHANGED inputVars
  /\ UNCHANGED <<outDirs, panels, htmlOut, svgOut>>
  /\ UNCHANGED browserVars
  /\ UNCHANGED fnVars

\* build_panel_payload; a failed extraction propagates out of main
BuildPanelPayload ==
  /\ pc = "collected"
  /\ LET r == build_panel_payload(entries, fs)
     IN /\ panels' = r.panels
        /\ pc' = IF r.ok THEN "payload" ELSE "error"
  /\ UNCHANGED inputVars
  /\ UNCHANGED <<outDirs, entries, htmlOut, svgOut>>
  /\ UNCHANGED browserVars
  /\ UNCHANGED fnVars

\* html = build_html(panels); args.output.write_text(html)
WriteHtml ==
  /\ pc = "payload"
  /\ htmlOut' = build_html(panels)
  /\ pc' = "html"
  /\ UNCHANGED inputVars
  /\ UNCHANGED <<outDirs, entries, panels, svgOut>>
  /\ UNCHANGED browserVars
  /\ UNCHANGED fnVars

\* svg = build_svg(panels); args.svg_output.write_text(svg)
WriteSvg ==
  /\ pc = "html"
  /\ svgOut' = build_svg(panels)
  /\ pc' = "done"
  /\ UNCHANGED inputVars
  /\ UNCHANGED <<outDirs, entries, panels, htmlOut>>
  /\ UNCHANGED browserVars
  /\ UNCHANGED fnVars

(* --------------------- functions called on their own -------------------- *)

\* main() is not run
MainOff ==
  /\ gridExists = FALSE
  /\ runsDirExists = FALSE
  /\ runDirs = {}
  /\ grid = <<>>
  /\ fs = <<>>
  /\ MainInit

\* every text of at most n characters from chars
TextsOver(chars, n) == UNION {[1..k -> chars] : k \in 0..n}

\* characters of compact-numeric texts: digits, the sign, the repeat mark,
\* the separator and a letter that no number holds
NumChars == {"0", "1", "2", "-", "x", ",", "a"}

NumTexts == TextsOver(NumChars, MaxTextLen)

InitCodec ==
  /\ fnArg \in NumTexts
  /\ fnPc = "decode_nlist"
  /\ fnRet = <<>>
  /\ MainOff
  /\ BrowserInit

\* values = decode_nlist(raw_str)
CallDecodeNlist ==
  /\ fnPc = "decode_nlist"
  /\ fnRet' = decode_nlist(fnArg)
  /\ fnPc' = "returned"
  /\ UNCHANGED fnArg
  /\ UNCHANGED mainVars
  /\ UNCHANGED browserVars

NextCodec == CallDecodeNlist

SpecCodec == InitCodec /\ [][NextCodec]_vars

\* numeric payloads of the reports handed to the extraction
RawNumTexts == TextsOver({"1", ",", "a"}, MaxRawLen)

\* label payloads: labels and commas, no two labels adjacent
LabelTexts ==
  {t \in TextsOver(Labels \cup {","}, MaxRawLen) :
     \A k \in 1..(Len(t) - 1) : t[k] = "," \/ t[k + 1] = ","}

\* report texts holding any of the three assignments
ReportTexts ==
  {[v \in has |-> ReportText(x, y, l)[v]] :
     has \in SUBSET JsVars, x \in RawNumTexts, y \in RawNumTexts,
     l \in LabelTexts}

InitExtract ==
  /\ fnArg \in ReportTexts
  /\ fnPc = "extract_umap_sample_traces"
  /\ fnRet = <<>>
  /\ MainOff
  /\ BrowserInit

\* traces = extract_umap_sample_traces(report_path)
CallExtract ==
  /\ fnPc = "extract_umap_sample_traces"
  /\ fnRet' = extract_umap_sample_traces(fnArg)
  /\ fnPc' = "returned"
  /\ UNCHANGED fnArg
  /\ UNCHANGED mainVars
  /\ UNCHANGED browserVars

NextExtract == CallExtract

SpecExtract == InitExtract /\ [][NextExtract]_vars

\* labels of the reports handed to build_panel_payload on its own: one
\* of the lookup table, one unknown, one unknown that reads like a display name
PanelLabels == Labels \cup {"K562"}

\* well-formed reports of up to MaxTriples triples; the y of a triple is
\* its x counted down from MaxCoord
TripleReports ==
  UNION {{ReportText(Join([k \in 1..n |-> <<DigitChars[xs[k] + 1]>>]),
                     Join([k \in 1..n |-> <<DigitChars[MaxCoord - xs[k] + 1]>>]),
                     Join([k \in 1..n |-> <<ls[k]>>])) :
            xs \in [1..n -> Coords], ls \in [1..n -> PanelLabels]} :
           n \in 0..MaxTriples}

\* the one entry whose report is fnArg
LoneEntry ==
  GalleryEntry([run_id |-> 1, fraction |-> 1, replicate |-> 1,
                is_reference |-> FALSE], 1)

InitPanel ==
  /\ fnArg \in TripleReports
  /\ fnPc = "build_panel_payload"
  /\ fnRet = <<>>
  /\ MainOff
  /\ BrowserInit

\* panels = build_panel_payload([entry], runs_dir, report_name)
CallBuildPanelPayload ==
  /\ fnPc = "build_panel_payload"
  /\ fnRet' = build_panel_payload(<<LoneEntry>>,
                                  <<LoneEntry.run_id, LoneEntry.sublib>> :> fnArg)
  /\ fnPc' = "returned"
  /\ UNCHANGED fnArg
  /\ UNCHANGED mainVars
  /\ UNCHANGED browserVars

NextPanel == CallBuildPanelPayload

SpecPanel == InitPanel /\ [][NextPanel]_vars

(* ------------------------- the embedded script -------------------------- *)

\* faulty variant: the layout is built before window.Plotly is looked at
OpenDocumentLayoutFirst ==
  /\ htmlOut.written
  /\ bpc = "closed"
  /\ dom' = RenderLayout(htmlOut.payload)
  /\ \E plotly \in BOOLEAN : bpc' = IF plotly THEN "loop" ELSE "noplotly"
  /\ UNCHANGED <<loopI, call, plotCalls, plots>>
  /\ UNCHANGED mainVars
  /\ UNCHANGED fnVars

\* the written document is opened: renderAll() runs up to replaceChildren,
\* or returns at once when window.Plotly is missing
OpenDocument ==
  /\ htmlOut.written
  /\ bpc = "closed"
  /\ \E plotly \in BOOLEAN :
       IF plotly
       THEN /\ dom' = RenderLayout(htmlOut.payload)
            /\ bpc' = "loop"
       ELSE /\ dom' = dom
            /\ bpc' = "noplotly"
  /\ UNCHANGED <<loopI, call, plotCalls, plots>>
  /\ UNCHANGED mainVars
  /\ UNCHANGED fnVars

\* i < panels.length fails: renderAll returns
LoopDone ==
  /\ bpc = "loop"
  /\ loopI >= Len(htmlOut.payload)
  /\ bpc' = "done"
  /\ UNCHANGED <<dom, loopI, call, plotCalls, plots>>
  /\ UNCHANGED mainVars
  /\ UNCHANGED fnVars

\* getElementById gives null and host.closest('.card') throws outside the
\* try block: the promise of renderAll is rejected and the loop is over
HostMissing ==
  /\ bpc = "loop"
  /\ loopI < Len(htmlOut.payload)
  /\ getElementById(dom, loopI) = 0
  /\ bpc' = "aborted"
  /\ UNCHANGED <<dom, loopI, call, plotCalls, plots>>
  /\ UNCHANGED mainVars
  /\ UNCHANGED fnVars

\* faulty variant: the call is made and the loop goes on without awaiting it
PlotStartNoAwait ==
  /\ bpc = "loop"
  /\ loopI < Len(htmlOut.payload)
  /\ getElementById(dom, loopI) # 0
  /\ call' = "pending"
  /\ plotCalls' = Append(plotCalls, loopI)
  /\ loopI' = loopI + 1
  /\ UNCHANGED <<bpc, dom, plots>>
  /\ UNCHANGED mainVars
  /\ UNCHANGED fnVars

\* await Plotly.newPlot(host, p.traces, layout, ...): the call is made; the
\* library settles it later (pending) or never (stalled)
PlotStart ==
  /\ bpc = "loop"
  /\ loopI < Len(htmlOut.payload)
  /\ getElementById(dom, loopI) # 0
  /\ \E o \in {"pending", "stalled"} : call' = o
  /\ plotCalls' = Append(plotCalls, loopI)
  /\ bpc' = "await"
  /\ UNCHANGED <<dom, loopI, plots>>
  /\ UNCHANGED mainVars
  /\ UNCHANGED fnVars

\* the awaited promise resolves: status.textContent = 'ready'
PlotResolve ==
  /\ bpc = "await"
  /\ call = "pending"
  /\ dom' = [dom EXCEPT ![getElementById(dom, loopI)].status = "ready",
                         ![getElementById(dom, loopI)].host = "plot"]
  /\ plots' = (loopI :> PlotlyFigure(htmlOut.payload[loopI + 1])) @@ plots
  /\ loopI' = loopI + 1
  /\ call' = "none"
  /\ bpc' = "loop"
  /\ UNCHANGED plotCalls
  /\ UNCHANGED mainVars
  /\ UNCHANGED fnVars

\* the call throws or the promise is rejected: the catch block
PlotFail ==
  /\ bpc = "await"
  /\ call = "pending"
  /\ dom' = [dom EXCEPT ![getElementById(dom, loopI)].status = "render failed",
                         ![getElementById(dom, loopI)].host = "Plotly render failed"]
  /\ loopI' = loopI + 1
  /\ call' = "none"
  /\ bpc' = "loop"
  /\ UNCHANGED <<plotCalls, plots>>
  /\ UNCHANGED mainVars
  /\ UNCHANGED fnVars

Next ==
  \/ LoadGrid
  \/ CollectEntries
  \/ BuildPanelPayload
  \/ WriteHtml
  \/ WriteSvg
  \/ OpenDocument
  \/ LoopDone
  \/ HostMissing
  \/ PlotStart
  \/ PlotResolve
  \/ PlotFail

Spec == Init /\ [][Next]_vars

\* the same program on inputs that vary the points of a report
SpecGeom == InitGeom /\ [][Next]_vars

TypeOK ==
  /\ pc \in {"start", "missing input", "loaded", "exit", "collected", "error", "payload", "html", "done"}
  /\ bpc \in {"closed", "noplotly", "loop", "await", "done", "aborted"}
  /\ call \in {"none", "pending", "stalled"}
  /\ loopI \in 0..Len(panels)

(* ------------------------------ properties ----------------------------- *)

\* the gallery has been built by renderAll
LaidOut == bpc \in {"loop", "await", "done", "aborted"}

PanelIndices == 0..(Len(htmlOut.payload) - 1)

\* elements carrying the id plot-i
HostsOf(i) == {k \in 1..Len(dom) : dom[k].kind = "card" /\ dom[k].idx = i}

\* status text of the card of panel i ("" when there is no such card)
CardStatus(i) ==
  IF getElementById(dom, i) = 0 THEN "" ELSE dom[getElementById(dom, i)].status

Settled(i) ==
  i \in Range(plotCalls) /\ CardStatus(i) \in {"ready", "render failed"}

SvgPanelElems == {k \in 1..Len(svgOut.elems) : svgOut.elems[k].kind = "panel"}

\* panel groups of the matrix (not of the reference row)
SvgMatrixPanels ==
  {k \in SvgPanelElems : ~panels[svgOut.elems[k].idx + 1].is_reference}

SvgMissing == {k \in 1..Len(svgOut.elems) : svgOut.elems[k].kind = "missing"}

DomMatrixCards ==
  {k \in 1..Len(dom) : dom[k].kind = "card"
                         /\ ~htmlOut.payload[dom[k].idx + 1].is_reference}

DomEmpty == {k \in 1..Len(dom) : dom[k].kind = "matrix-empty"}

\* C1: once the plot loop of renderAll is over, whether it returned or threw,
\* every panel of the payload has had its plot attempted and no panel is left
\* at 'rendering': a failure in one panel does not abort the loop.
C1_FailureDoesNotAbortLoop ==
  bpc \in {"done", "aborted"} => \A i \in PanelIndices : Settled(i)

\* C2: if a plot call never completes while every panel has a plot host, all
\* the other panels still get their plot started and reach 'ready' or
\* 'render failed'. A stalled call is never settled, so the statement is
\* checked where it has become final: in the states in which a call has
\* stalled and no step of the program is left to take.
C2_StallLeavesOthersUnaffected ==
  (/\ call = "stalled"
   /\ pc = "done"
   /\ \A i \in PanelIndices : HostsOf(i) # {}
   /\ ~ENABLED Next)
    => (\A j \in PanelIndices \ {loopI} : Settled(j))

\* C3: after layout construction there is exactly one element with id plot-i
\* for every panel index i of the payload.
C3_OneHostPerPanel ==
  LaidOut => \A i \in PanelIndices : Cardinality(HostsOf(i)) = 1

\* position of data value v inside the window [lo, hi] equals its position
\* inside [lo2, hi2] (windows in units of 1 / BoundsScale)
SameRel(v, lo, hi, lo2, hi2) ==
  (v * BoundsScale - lo) * (hi2 - lo2) = (v * BoundsScale - lo2) * (hi - lo)

SamePlace(q, w, w2) ==
  /\ SameRel(q[1], w.min_x, w.max_x, w2.min_x, w2.max_x)
  /\ SameRel(q[2], w.min_y, w.max_y, w2.min_y, w2.max_y)

\* C4: a data point lies at the same relative position of the plot area in
\* every panel that shows it, in the interactive and in the static output.
C4_SameFraming ==
  /\ \A i \in DOMAIN plots : \A j \in DOMAIN plots :
       \A q \in PanelPoints(htmlOut.payload[i + 1])
                  \cap PanelPoints(htmlOut.payload[j + 1]) :
         SamePlace(q, plots[i].window, plots[j].window)
  /\ svgOut.written =>
       \A i \in DOMAIN plots : \A k \in SvgPanelElems :
         \A q \in PanelPoints(htmlOut.payload[i + 1])
                    \cap PanelPoints(panels[svgOut.elems[k].idx + 1]) :
           SamePlace(q, plots[i].window, svgOut.elems[k].window)

\* C5: the series of a panel have the same colors in the interactive plot and
\* in the static panel group, and the interactive plot shows each series under
\* the display name of the panel list.
C5_SameColorsAndNames ==
  svgOut.written =>
    \A i \in DOMAIN plots :
      /\ \A k \in SvgPanelElems :
           svgOut.elems[k].idx = i => svgOut.elems[k].fills = plots[i].colors
      /\ plots[i].names =
           [j \in 1..Len(panels[i + 1].traces) |-> panels[i + 1].traces[j].name]

\* C6: a matrix cell shows the first panel, in panel order, of its
\* (fraction, replicate) key, in the static and in the interactive output.
C6_FirstMatchWins ==
  /\ svgOut.written =>
       \A k \in SvgMatrixPanels :
         svgOut.elems[k].idx + 1 =
           SetMin(KeyIdx(panels, svgOut.elems[k].frac, svgOut.elems[k].rep))
  /\ LaidOut =>
       \A k \in DomMatrixCards :
         dom[k].idx + 1 = SetMin(KeyIdx(panels, dom[k].frac, dom[k].rep))

\* a non-reference run of the table without any report, while another
\* non-reference run has one, and whose (fraction, replicate) no
\* non-reference run with a report shares
RunWithoutReport(k) ==
  /\ ~grid[k].is_reference
  /\ RunSublibs(fs, grid[k].run_id) = <<>>
  /\ \E m \in 1..Len(grid) :
       ~grid[m].is_reference /\ RunSublibs(fs, grid[m].run_id) # <<>>
  /\ \A m \in 1..Len(grid) :
       (~grid[m].is_reference /\ RunSublibs(fs, grid[m].run_id) # <<>>)
         => ~(grid[m].fraction = grid[k].fraction
                /\ grid[m].replicate = grid[k].replicate)

\* C7: a non-reference run of the table that has no report, while other runs
\* have, shows in the vector output as exactly one 'missing' cell at its
\* (fraction, replicate).
C7_MissingRunHasPlaceholder ==
  svgOut.written =>
    \A k \in 1..Len(grid) :
      RunWithoutReport(k) =>
        Cardinality({m \in SvgMissing :
                       /\ svgOut.elems[m].frac = grid[k].fraction
                       /\ svgOut.elems[m].rep = grid[k].replicate}) = 1

\* C8: the vector document holds as many panel groups as the panel list has
\* panels.
C8_OneGroupPerPanel ==
  svgOut.written => Cardinality(SvgPanelElems) = Len(panels)

\* the cell at (f, r) among the given elements is unique, and is a
\* placeholder exactly when no non-reference panel has the key
CellOK(cards, empties, fracOf(_), repOf(_), f, r) ==
  LET at(S) == {k \in S : fracOf(k) = f /\ repOf(k) = r}
  IN /\ Cardinality(at(cards)) + Cardinality(at(empties)) = 1
     /\ (at(empties) # {}) <=> (KeyIdx(panels, f, r) = {})

SvgFrac(k) == svgOut.elems[k].frac

SvgRep(k) == svgOut.elems[k].rep

DomFrac(k) == dom[k].frac

DomRep(k) == dom[k].rep

DomRows == {dom[k].frac : k \in {m \in 1..Len(dom) : dom[m].kind = "matrix-rowhead"}}

DomCols == {dom[k].rep : k \in {m \in 1..Len(dom) : dom[m].kind = "matrix-colhead"}}

\* C9: in both renderers the matrix is rectangular: one cell for every row
\* fraction and column replicate, |rows| x |columns| cells in all, a cell
\* being a placeholder exactly when no non-reference panel has its key.
C9_MatrixRectangular ==
  /\ svgOut.written =>
       /\ Cardinality(SvgMatrixPanels) + Cardinality(SvgMissing)
            = Len(svgOut.rows) * Len(svgOut.cols)
       /\ \A f \in Range(svgOut.rows) : \A r \in Range(svgOut.cols) :
            CellOK(SvgMatrixPanels, SvgMissing, SvgFrac, SvgRep, f, r)
  /\ LaidOut =>
       /\ Cardinality(DomMatrixCards) + Cardinality(DomEmpty)
            = Cardinality(DomRows) * Cardinality(DomCols)
       /\ \A f \in DomRows : \A r \in DomCols :
            CellOK(DomMatrixCards, DomEmpty, DomFrac, DomRep, f, r)

\* both outputs hold a matrix of two rows and two columns with a placeholder
\* and a panel cell
C9_Witness ==
  /\ svgOut.written /\ LaidOut
  /\ Len(svgOut.rows) = 2 /\ Len(svgOut.cols) = 2
  /\ Cardinality(DomRows) = 2 /\ Cardinality(DomCols) = 2
  /\ SvgMissing # {} /\ SvgMatrixPanels # {}
  /\ DomEmpty # {} /\ DomMatrixCards # {}

\* C10: the global bounds of the vector document contain every point of every
\* trace of every panel, reference panels included.
C10_BoundsContainAllPoints ==
  svgOut.written =>
    \A k \in 1..Len(panels) : \A q \in PanelPoints(panels[k]) :
      /\ svgOut.bounds.min_x <= q[1] * BoundsScale
      /\ q[1] * BoundsScale <= svgOut.bounds.max_x
      /\ svgOut.bounds.min_y <= q[2] * BoundsScale
      /\ q[2] * BoundsScale <= svgOut.bounds.max_y

\* a reference panel and a matrix panel with points that differ on both axes
C10_Witness ==
  /\ svgOut.written
  /\ \E k \in 1..Len(panels) : \E m \in 1..Len(panels) :
       /\ panels[k].is_reference /\ ~panels[m].is_reference
       /\ \E q \in PanelPoints(panels[k]) : \E q2 \in PanelPoints(panels[m]) :
            q[1] # q2[1] /\ q[2] # q2[2]


(* -------------------------- ordering of panels -------------------------- *)

\* main() has got its panel list from build_panel_payload
PayloadBuilt == pc \in {"payload", "html", "done"}

RECURSIVE Orderings(_)
\* every sequence that lists the elements of S once each
Orderings(S) ==
  IF S = {} THEN {<<>>}
  ELSE UNION {{<<x>> \o o : o \in Orderings(S \ {x})} : x \in S}

\* panel a may stand before panel b: a reference before a non-reference,
\* else ascending fraction, then replicate, then sublibrary
MayPrecede(a, b) ==
  \/ a.is_reference /\ ~b.is_reference
  \/ /\ a.is_reference = b.is_reference
     /\ \/ a.fraction < b.fraction
        \/ a.fraction = b.fraction /\ a.replicate < b.replicate
        \/ /\ a.fraction = b.fraction
           /\ a.replicate = b.replicate
           /\ a.sublib <= b.sublib

\* C11: once build_panel_payload has returned, every panel of the list may
\* precede every later one (references first, then ascending fraction,
\* replicate, sublibrary), and the list is the one build_panel_payload
\* gives for the same entries discovered in any other order.
C11_OrderIndependentOfDiscovery ==
  PayloadBuilt =>
    /\ \A i \in 1..Len(panels) : \A j \in (i + 1)..Len(panels) :
         MayPrecede(panels[i], panels[j])
    /\ \A es \in Orderings(Range(entries)) :
         build_panel_payload(es, fs).panels = panels


(* ------------------------------ extraction ------------------------------ *)

\* extract_umap_sample_traces has returned or raised
Extracted == fnPc = "returned"

\* decoded lengths of the three payloads of a report holding all three
DecodedLens(text) ==
  <<Len(decode_nlist(text["umap_x"]).values),
    Len(decode_nlist(text["umap_y"]).values),
    Len(decode_comlist(text["samples_raw"]))>>

\* both numeric payloads of the report decode
NumbersDecode(text) ==
  decode_nlist(text["umap_x"]).ok /\ decode_nlist(text["umap_y"]).ok

\* C12: a report text that lacks any of the three assignments makes the
\* extraction fail, and no series is returned, whichever is missing.
C12_MissingAssignmentFails ==
  (Extracted /\ DOMAIN fnArg # JsVars) =>
    ~fnRet.ok /\ fnRet.traces = <<>>

\* only the umap_y assignment is missing; the other two payloads are valid
\* and of the same length
C12_Witness ==
  /\ Extracted
  /\ DOMAIN fnArg = {"umap_x", "samples_raw"}
  /\ decode_nlist(fnArg["umap_x"]).ok
  /\ Len(decode_nlist(fnArg["umap_x"]).values) = 1
  /\ decode_comlist(fnArg["samples_raw"]) = <<"xcond_1">>
  /\ ~fnRet.ok

\* C13: when the three payloads decode to sequences that are not all of the
\* same length, the extraction fails and returns no series.
C13_LengthMismatchFails ==
  (/\ Extracted
   /\ DOMAIN fnArg = JsVars
   /\ NumbersDecode(fnArg)
   /\ \E i, j \in 1..3 : DecodedLens(fnArg)[i] # DecodedLens(fnArg)[j]) =>
    ~fnRet.ok /\ fnRet.traces = <<>>

\* one x, one y and two labels: cutting to the shortest would give a point
C13_Witness ==
  /\ Extracted
  /\ DOMAIN fnArg = JsVars
  /\ NumbersDecode(fnArg)
  /\ DecodedLens(fnArg) = <<1, 1, 2>>
  /\ fnRet.err = "length mismatch"


(* ------------------------------ main: aborts ---------------------------- *)

Written == htmlOut.written \/ svgOut.written

\* the report of entry e does not go through the extraction
ReportFails(e) ==
  ~extract_umap_sample_traces(fs[<<e.run_id, e.sublib>>]).ok

\* C14: when the report of any discovered entry fails extraction, main()
\* stops in build_panel_payload and neither document is ever written; a
\* document that is written holds one panel for every discovered entry.
C14_NoPartialOutput ==
  /\ (\E k \in 1..Len(entries) : ReportFails(entries[k])) =>
       pc \in {"collected", "error"} /\ ~Written
  /\ pc = "error" => ~Written /\ panels = <<>>
  /\ Written =>
       /\ Len(panels) = Len(entries)
       /\ \A k \in 1..Len(entries) : ~ReportFails(entries[k])

\* the run has stopped on a failed report although another one was good
C14_Witness ==
  /\ pc = "error"
  /\ \E k \in 1..Len(entries) : ReportFails(entries[k])
  /\ \E k \in 1..Len(entries) : ~ReportFails(entries[k])
  /\ ~Written

\* no report lies below any run of the table
NoMatchingReport ==
  \A k \in 1..Len(grid) : \A sl \in Sublibs :
    <<grid[k].run_id, sl>> \notin DOMAIN fs

\* C15: with the table and the runs directory in place and no matching
\* report below any run, main() ends in SystemExit and writes neither
\* document; no written document holds an empty panel list.
C15_NoReportsExit ==
  /\ (gridExists /\ runsDirExists /\ NoMatchingReport) =>
       pc \in {"start", "loaded", "exit"} /\ ~Written
  /\ pc = "exit" => NoMatchingReport /\ ~Written
  /\ htmlOut.written => htmlOut.payload # <<>>
  /\ svgOut.written => panels # <<>>

\* the table has runs, none of them with a report, and main() has exited
C15_Witness ==
  /\ pc = "exit"
  /\ gridExists /\ runsDirExists
  /\ Len(grid) >= 1
  /\ NoMatchingReport

\* C19: when the table file or the runs directory is absent, main() stops
\* with FileNotFoundError before collect_entries returns: no entry, no
\* panel and no document is ever produced.
C19_MissingInputAborts ==
  /\ (~gridExists \/ ~runsDirExists) =>
       /\ pc \in {"start", "loaded", "missing input"}
       /\ entries = <<>> /\ panels = <<>> /\ ~Written
  /\ ~gridExists => pc \in {"start", "missing input"}
  /\ pc = "missing input" => ~gridExists \/ ~runsDirExists

\* the table was read and the runs directory was found missing
C19_Witness ==
  /\ pc = "missing input"
  /\ gridExists /\ ~runsDirExists
  /\ Len(grid) >= 1
  /\ outDirs


(* ---------------------------- decode_nlist ------------------------------ *)

\* decode_nlist has returned or raised
Decoded == fnPc = "returned"

\* the tokens of a text: its non-empty pieces between commas
Tokens(text) ==
  LET pieces == Split(text, ",")
      idx == SeqFilterIdx([k \in 1..Len(pieces) |-> pieces[k] # <<>>], {TRUE}, 1)
  IN [k \in 1..Len(idx) |-> pieces[idx[k]]]

HasCount(tok) == "x" \in Range(tok)

\* the part of a token that states the value
ValuePart(tok) == IF HasCount(tok) THEN SplitOnce(tok, "x")[1] ELSE tok

\* the part of a token that states the repeat count
CountPart(tok) == SplitOnce(tok, "x")[2]

IsNumber(s) == SignedDecimal(s).ok

\* a bare number, or number x count with a count of one or more
WellFormedToken(tok) ==
  /\ IsNumber(ValuePart(tok))
  /\ HasCount(tok) =>
       IsDigits(CountPart(tok)) /\ DigitsValue(CountPart(tok)) >= 1

WellFormed(text) ==
  \A k \in 1..Len(Tokens(text)) : WellFormedToken(Tokens(text)[k])

DeclaredCount(tok) ==
  IF HasCount(tok) THEN DigitsValue(CountPart(tok)) ELSE 1

RECURSIVE SumCounts(_)
SumCounts(toks) ==
  IF toks = <<>> THEN 0
  ELSE DeclaredCount(Head(toks)) + SumCounts(Tail(toks))

RECURSIVE TokenOfPosition(_, _)
\* the token that the p-th decoded value comes from
TokenOfPosition(toks, p) ==
  IF p <= DeclaredCount(Head(toks)) THEN Head(toks)
  ELSE TokenOfPosition(Tail(toks), p - DeclaredCount(Head(toks)))

\* C16: for a well-formed text decode_nlist returns as many values as the
\* tokens declare (one for a bare number), and the p-th value is the number
\* of the token that covers position p when the tokens are laid out in
\* order, each over its count; the empty text gives the empty sequence.
C16_DecodeExpandsInOrder ==
  (Decoded /\ WellFormed(fnArg)) =>
    /\ fnRet.ok
    /\ Len(fnRet.values) = SumCounts(Tokens(fnArg))
    /\ \A p \in 1..Len(fnRet.values) :
         fnRet.values[p] =
           SignedDecimal(ValuePart(TokenOfPosition(Tokens(fnArg), p))).val
    /\ fnArg = <<>> => fnRet.values = <<>>

\* a repeated number followed by a bare one
C16_Witness ==
  /\ Decoded
  /\ fnArg = <<"1", "x", "2", ",", "0">>
  /\ fnRet.ok
  /\ fnRet.values = <<1, 1, 0>>

\* C17: a text with a token whose value part is not a number makes
\* decode_nlist fail, with no values returned, wherever the token stands.
C17_NonNumericValueFails ==
  (Decoded /\ \E k \in 1..Len(Tokens(fnArg)) :
                 ~IsNumber(ValuePart(Tokens(fnArg)[k]))) =>
    ~fnRet.ok /\ fnRet.values = <<>>

\* the token that is not a number comes after one that decodes
C17_Witness ==
  /\ Decoded
  /\ Len(Tokens(fnArg)) = 2
  /\ WellFormedToken(Tokens(fnArg)[1])
  /\ ~IsNumber(ValuePart(Tokens(fnArg)[2]))
  /\ ~fnRet.ok

\* C20: a text with a token number x count whose count is an integer below
\* one is never decoded: decode_nlist fails on it.
C20_CountBelowOneRejected ==
  (Decoded /\ \E k \in 1..Len(Tokens(fnArg)) :
                 /\ HasCount(Tokens(fnArg)[k])
                 /\ int(CountPart(Tokens(fnArg)[k])).ok
                 /\ int(CountPart(Tokens(fnArg)[k])).val < 1) =>
    ~fnRet.ok


(* ------------------------------- grouping ------------------------------- *)

\* build_panel_payload has returned the panel of the lone entry
PanelBuilt == fnPc = "returned" /\ fnRet.ok /\ Len(fnRet.panels) = 1

\* the decoded triples of the report
TripleXs == decode_nlist(fnArg["umap_x"]).values

TripleYs == decode_nlist(fnArg["umap_y"]).values

TripleLabels == decode_comlist(fnArg["samples_raw"])

\* positions of the triples that carry label l
PositionsOf(l) == {i \in 1..Len(TripleLabels) : TripleLabels[i] = l}

\* the q-th smallest element of a set of positions
NthOf(S, q) == CHOOSE i \in S : Cardinality({j \in S : j <= i}) = q

\* position at which each label occurs first
FirstPositions == {SetMin(PositionsOf(l)) : l \in Range(TripleLabels)}

\* the label that is the k-th to occur
KthLabel(k) == TripleLabels[NthOf(FirstPositions, k)]

RECURSIVE SumSizes(_, _)
SumSizes(traces, k) ==
  IF k = 0 THEN 0 ELSE Len(traces[k].x) + SumSizes(traces, k - 1)

\* C21: the series of a panel partition its triples: there is one series
\* per distinct label, the k-th series belongs to the k-th label to occur,
\* it holds the x and y of exactly the triples of that label in their
\* original order, and n_points is the sum of the series sizes and the
\* number of triples.
C21_SeriesPartitionTriples ==
  PanelBuilt =>
    LET traces == fnRet.panels[1].traces
    IN /\ Len(traces) = Cardinality(Range(TripleLabels))
       /\ \A k \in 1..Len(traces) :
            LET pos == PositionsOf(KthLabel(k))
            IN /\ Len(traces[k].x) = Cardinality(pos)
               /\ Len(traces[k].y) = Cardinality(pos)
               /\ \A q \in 1..Cardinality(pos) :
                    /\ traces[k].x[q] = TripleXs[NthOf(pos, q)]
                    /\ traces[k].y[q] = TripleYs[NthOf(pos, q)]
       /\ fnRet.panels[1].n_points = SumSizes(traces, Len(traces))
       /\ fnRet.panels[1].n_points = Len(TripleLabels)

\* two labels interleaved over three triples with distinct x
C21_Witness ==
  /\ PanelBuilt
  /\ TripleLabels = <<"ctl", "xcond_1", "ctl">>
  /\ TripleXs = <<2, 0, 1>>
  /\ Len(fnRet.panels[1].traces) = 2
  /\ fnRet.panels[1].traces[1].x = <<2, 1>>
  /\ fnRet.panels[1].traces[2].x = <<0>>

\* C22: a label that the lookup tables do not hold gets a series of its
\* own, named by the raw label, with no colour assigned, holding all its
\* triples; it is not left out and not put together with another label.
C22_UnknownLabelPassesThrough ==
  PanelBuilt =>
    LET traces == fnRet.panels[1].traces
    IN /\ Len(traces) = Cardinality(Range(TripleLabels))
       /\ \A k \in 1..Len(traces) :
            KthLabel(k) \notin DOMAIN SAMPLE_NAME_MAP =>
              /\ traces[k].name = KthLabel(k)
              /\ traces[k].color = "None"
              /\ Len(traces[k].x) = Cardinality(PositionsOf(KthLabel(k)))

\* an unknown label that reads like the display name of a known one
C22_Witness ==
  /\ PanelBuilt
  /\ TripleLabels = <<"xcond_1", "K562", "ctl">>
  /\ Len(fnRet.panels[1].traces) = 3
  /\ fnRet.panels[1].traces[1].name = "K562"
  /\ fnRet.panels[1].traces[2].name = "K562"
  /\ fnRet.panels[1].traces[2].color = "None"
  /\ fnRet.panels[1].traces[3].name = "ctl"


(* --------------------------- rows and columns --------------------------- *)

\* positions of the elements of a kind, in document order
OfKind(elems, kind) ==
  SeqFilterIdx([k \in 1..Len(elems) |-> elems[k].kind], {kind}, 1)

StrictlyAscending(v) == \A k \in 1..(Len(v) - 1) : v[k] < v[k + 1]

NonRefPanels == {k \in 1..Len(panels) : ~panels[k].is_reference}

RefPanels == {k \in 1..Len(panels) : panels[k].is_reference}

\* In a document given by its elements, with the names of its header, corner
\* and panel kinds: rows and columns are the fractions and replicates of
\* the non-reference panels in strictly ascending order; the panels before
\* the corner are the reference panels, once each in list order, and no
\* panel behind the corner is a reference panel.
RowsColsRefsOK(elems, rowKind, colKind, cornerKind, panelKind) ==
  LET rows == [k \in 1..Len(OfKind(elems, rowKind)) |->
                 elems[OfKind(elems, rowKind)[k]].frac]
      cols == [k \in 1..Len(OfKind(elems, colKind)) |->
                 elems[OfKind(elems, colKind)[k]].rep]
      corner == OfKind(elems, cornerKind)[1]
      drawn == OfKind(elems, panelKind)
      refRow == SeqFilterIdx(drawn, 1..corner, 1)
  IN /\ Len(OfKind(elems, cornerKind)) = 1
     /\ StrictlyAscending(rows)
     /\ StrictlyAscending(cols)
     /\ Range(rows) = {panels[k].fraction : k \in NonRefPanels}
     /\ Range(cols) = {panels[k].replicate : k \in NonRefPanels}
     /\ Len(refRow) = Cardinality(RefPanels)
     /\ StrictlyAscending([k \in 1..Len(refRow) |-> elems[drawn[refRow[k]]].idx])
     /\ \A k \in 1..Len(drawn) :
          panels[elems[drawn[k]].idx + 1].is_reference <=> drawn[k] < corner

\* C23: in the vector document and in the laid-out gallery alike, the row
\* and column headers are exactly the distinct fractions and replicates of
\* the non-reference panels, ascending; reference panels add no row or
\* column, fill no matrix cell and stand once each, in panel order, in the
\* reference row.
C23_RowsColsFromNonReference ==
  /\ svgOut.written =>
       RowsColsRefsOK(svgOut.elems, "rowhead", "colhead", "corner", "panel")
  /\ LaidOut =>
       RowsColsRefsOK(dom, "matrix-rowhead", "matrix-colhead",
                      "matrix-corner", "card")

\* a reference panel whose fraction and replicate no matrix panel has, next
\* to a matrix of one row and one column
C23_Witness ==
  /\ svgOut.written /\ LaidOut
  /\ \E k \in RefPanels :
       /\ panels[k].fraction \notin {panels[j].fraction : j \in NonRefPanels}
       /\ panels[k].replicate \notin {panels[j].replicate : j \in NonRefPanels}
  /\ NonRefPanels # {}
  /\ Len(OfKind(svgOut.elems, "rowhead")) = 1
  /\ Len(OfKind(dom, "matrix-rowhead")) = 1


(* --------------------- the static renderer's transform ------------------ *)

\* the circles of the vector document: <<element, trace, position>>
SvgCircleIds ==
  {<<k, j, q>> \in SvgPanelElems \X (1..MaxPoints + 1) \X (1..MaxPoints + 1) :
     /\ j <= Len(svgOut.elems[k].circles)
     /\ q <= Len(svgOut.elems[k].circles[j])}

\* the data point a circle is drawn for
DataX(c) == panels[svgOut.elems[c[1]].idx + 1].traces[c[2]].x[c[3]]

DataY(c) == panels[svgOut.elems[c[1]].idx + 1].traces[c[2]].y[c[3]]

\* offset of the circle centre from the origin of its plot rectangle, in
\* hundredths of a pixel
OffX(c) ==
  svgOut.elems[c[1]].circles[c[2]][c[3]][1] - Hundredths * svgOut.elems[c[1]].plot.x

OffY(c) ==
  svgOut.elems[c[1]].circles[c[2]][c[3]][2] - Hundredths * svgOut.elems[c[1]].plot.y

Abs(n) == IF n < 0 THEN 0 - n ELSE n

\* the smaller of plot_w / span_x and plot_h / span_y of the document's
\* bounds, as pixels over a span in units of 1 / BoundsScale
MinRatioNum ==
  IF plot_w * (svgOut.bounds.max_y - svgOut.bounds.min_y)
       <= plot_h * (svgOut.bounds.max_x - svgOut.bounds.min_x)
  THEN plot_w ELSE plot_h

MinRatioDen ==
  IF plot_w * (svgOut.bounds.max_y - svgOut.bounds.min_y)
       <= plot_h * (svgOut.bounds.max_x - svgOut.bounds.min_x)
  THEN svgOut.bounds.max_x - svgOut.bounds.min_x
  ELSE svgOut.bounds.max_y - svgOut.bounds.min_y

\* C24: in the written vector document every circle centre lies in the plot
\* rectangle of its panel; equal data points have equal offsets from the
\* plot-rectangle origin in every panel; between any two circles the
\* offsets differ by the difference of the data times the one scale
\* min(plot_w / span_x, plot_h / span_y), on x and, with the sign turned,
\* on y; and the middle of the bounds lies in the middle of the rectangle.
\* Offsets are written with two decimals, so equalities of differences hold
\* to one hundredth of a pixel.
C24_SharedAffineTransform ==
  svgOut.written =>
    /\ \A c \in SvgCircleIds :
         /\ 0 <= OffX(c) /\ OffX(c) <= Hundredths * svgOut.elems[c[1]].plot.w
         /\ 0 <= OffY(c) /\ OffY(c) <= Hundredths * svgOut.elems[c[1]].plot.h
         /\ Abs((2 * OffX(c) - Hundredths * plot_w) * MinRatioDen
                 - Hundredths * MinRatioNum *
                     (2 * DataX(c) * BoundsScale
                        - svgOut.bounds.min_x - svgOut.bounds.max_x))
              <= MinRatioDen
         /\ Abs((2 * OffY(c) - Hundredths * plot_h) * MinRatioDen
                 - Hundredths * MinRatioNum *
                     (svgOut.bounds.min_y + svgOut.bounds.max_y
                        - 2 * DataY(c) * BoundsScale))
              <= MinRatioDen
    /\ \A c, d \in SvgCircleIds :
         /\ (DataX(c) = DataX(d)) => OffX(c) = OffX(d)
         /\ (DataY(c) = DataY(d)) => OffY(c) = OffY(d)
         /\ Abs((OffX(d) - OffX(c)) * MinRatioDen
                 - Hundredths * MinRatioNum * BoundsScale * (DataX(d) - DataX(c)))
              <= MinRatioDen
         /\ Abs((OffY(c) - OffY(d)) * MinRatioDen
                 - Hundredths * MinRatioNum * BoundsScale * (DataY(d) - DataY(c)))
              <= MinRatioDen

\* two panels drawn at different places, one with the point (1, 1) and one
\* with a point to its right and below it in the data
C24_Witness ==
  /\ svgOut.written
  /\ \E c, d \in SvgCircleIds :
       /\ c[1] # d[1]
       /\ svgOut.elems[c[1]].plot # svgOut.elems[d[1]].plot
       /\ DataX(c) = 1 /\ DataY(c) = 1
       /\ DataX(d) = 2 /\ DataY(d) = 0
       /\ OffX(d) > OffX(c) /\ OffY(d) > OffY(c)


(* ------------------------ bounds without points ------------------------- *)

\* the vector document is written and no panel holds a point
WrittenWithoutPoints == svgOut.written /\ _iter_panel_points(panels) = {}

\* C25 as stated: without any point the global bounds are a unit square,
\* a square of side one.
C25_UnitSquareWithoutPoints ==
  WrittenWithoutPoints =>
    /\ svgOut.bounds.max_x - svgOut.bounds.min_x = BoundsScale
    /\ svgOut.bounds.max_y - svgOut.bounds.min_y = BoundsScale

\* C25 amended: without any point the global bounds are the fixed square
\* from -1 to 1 on both axes, whatever the metadata of the panels.
C25_FixedSquareWithoutPoints ==
  WrittenWithoutPoints =>
    svgOut.bounds = [min_x |-> 0 - BoundsScale, max_x |-> BoundsScale,
                     min_y |-> 0 - BoundsScale, max_y |-> BoundsScale]

\* a reference panel without points has been drawn
C25_Witness ==
  /\ WrittenWithoutPoints
  /\ Len(panels) = 1
  /\ panels[1].is_reference
  /\ panels[1].n_points = 0


(* ----------------------------- the plot loop ---------------------------- *)

\* panels whose card no longer reads 'rendering'
LeftRendering ==
  {i \in PanelIndices : CardStatus(i) \in {"ready", "render failed"}}

\* calls of Plotly.newPlot that have been made and are not settled
InFlight == Len(plotCalls) - Cardinality(LeftRendering)

\* C26: the plot loop calls Plotly.newPlot for panels 0, 1, 2, ... in this
\* order; at most one call is unsettled at any moment, and it is the last
\* one made; the panels that have left 'rendering' are the first ones of
\* the payload, with no gap.
C26_OneAtATimeInOrder ==
  LaidOut =>
    /\ \A k \in 1..Len(plotCalls) : plotCalls[k] = k - 1
    /\ LeftRendering = 0..(Cardinality(LeftRendering) - 1)
    /\ InFlight \in {0, 1}
    /\ InFlight = 1 <=> call # "none"
    /\ InFlight = 1 => CardStatus(plotCalls[Len(plotCalls)]) = "rendering"

\* the second of three panels is being plotted, the first is settled
C26_Witness ==
  /\ LaidOut
  /\ Len(htmlOut.payload) >= 3
  /\ \A i \in PanelIndices : HostsOf(i) # {}
  /\ plotCalls = <<0, 1>>
  /\ call = "pending"
  /\ LeftRendering = {0}

Cards == {k \in 1..Len(dom) : dom[k].kind = "card"}

\* C27: a card is made with the status 'rendering'; a status changes only
\* from 'rendering', and only to 'ready' or 'render failed'.
C27_StatusOneWay ==
  /\ [](\A k \in Cards : dom[k].status \in {"rendering", "ready", "render failed"})
  /\ [][/\ (dom = <<>> /\ dom' # <<>>) =>
             \A k \in 1..Len(dom') :
               dom'[k].kind = "card" => dom'[k].status = "rendering"
        /\ dom # <<>> =>
             /\ Len(dom') = Len(dom)
             /\ \A k \in Cards :
                  /\ dom'[k].kind = "card"
                  /\ dom[k].status # "rendering" => dom'[k].status = dom[k].status
                  /\ dom'[k].status # dom[k].status =>
                       dom'[k].status \in {"ready", "render failed"}]_vars

\* the loop is over with one card 'ready' and one 'render failed'
C27_Witness ==
  /\ bpc = "done"
  /\ \E k \in Cards : dom[k].status = "ready"
  /\ \E k \in Cards : dom[k].status = "render failed"

\* C28: when window.Plotly is missing as the document loads, renderAll has
\* returned with the gallery left empty: no card, header, placeholder or
\* status exists, no plot call is made and no plot is drawn.
C28_NoPlotlyNoLayout ==
  bpc = "noplotly" =>
    /\ dom = <<>>
    /\ plotCalls = <<>>
    /\ plots = <<>>
    /\ call = "none"
    /\ \A i \in PanelIndices : CardStatus(i) = ""

\* a document with panels was opened without the plotting library
C28_Witness ==
  /\ bpc = "noplotly"
  /\ Len(htmlOut.payload) >= 2
  /\ pc = "done"


(* ------------------------------ skipped runs ---------------------------- *)

\* run ids of the table that contribute nothing: no directory, or no report
SkippedRuns ==
  {grid[k].run_id : k \in 1..Len(grid)} \ RunsWithFiles(fs)

\* every report that is there goes through the extraction
AllReportsGood ==
  \A place \in DOMAIN fs : extract_umap_sample_traces(fs[place]).ok

\* collect_entries has returned
Collected == pc \in {"exit", "collected", "error", "payload", "html", "done"}

\* C29: with the table and the runs directory in place, a run of the table
\* without directory or without report raises nothing and adds no entry and
\* no panel, while every report of the other runs becomes an entry; when
\* there is such a report and all reports are good, main() never stops in
\* an error or in SystemExit.
C29_RunWithoutReportSkipped ==
  (gridExists /\ runsDirExists) =>
    /\ pc # "missing input"
    /\ Collected =>
         {<<entries[k].run_id, entries[k].sublib>> : k \in 1..Len(entries)}
           = DOMAIN fs
    /\ \A k \in 1..Len(panels) : panels[k].run_id \notin SkippedRuns
    /\ (fs # <<>> /\ AllReportsGood) => pc \notin {"exit", "error"}

\* the first run has no directory, the second has a report, and main() is
\* through
C29_Witness ==
  /\ gridExists /\ runsDirExists
  /\ Len(grid) = 2
  /\ grid[1].run_id \notin runDirs
  /\ grid[2].run_id \in RunsWithFiles(fs)
  /\ pc = "done"
  /\ Len(panels) >= 1


(* ------------------------------ empty tokens ---------------------------- *)

Commas(text) == Cardinality({k \in 1..Len(text) : text[k] = ","})

\* places of a text where a non-empty token begins
TokenStarts(text) ==
  {k \in 1..Len(text) : text[k] # "," /\ (k = 1 \/ text[k - 1] = ",")}

\* every character of the text is a digit or a comma
DigitsAndCommas(text) ==
  \A k \in 1..Len(text) : text[k] = "," \/ text[k] \in Range(DigitChars)

\* what the label decoder returns for a text: nothing for the empty text,
\* else one label more than there are commas
LabelCount(text) == IF text = <<>> THEN 0 ELSE Commas(text) + 1

\* C30: for a report whose numeric payloads hold digits and commas only,
\* the extraction succeeds exactly when the numbers of non-empty tokens of
\* the x and y payloads both equal the number of commas of the label
\* payload plus one (zero for the empty one), and fails with the length
\* mismatch otherwise: empty tokens count for labels and not for numbers,
\* so a report whose three payloads end in the same stray comma is refused.
C30_EmptyTokensCountForLabelsOnly ==
  (/\ Extracted
   /\ DOMAIN fnArg = JsVars
   /\ DigitsAndCommas(fnArg["umap_x"])
   /\ DigitsAndCommas(fnArg["umap_y"])) =>
    /\ fnRet.ok <=>
         /\ Cardinality(TokenStarts(fnArg["umap_x"])) = LabelCount(fnArg["samples_raw"])
         /\ Cardinality(TokenStarts(fnArg["umap_y"])) = LabelCount(fnArg["samples_raw"])
    /\ ~fnRet.ok => fnRet.err = "length mismatch"
    /\ fnRet.ok =>
         SumSizes(fnRet.traces, Len(fnRet.traces)) = LabelCount(fnArg["samples_raw"])

\* the three payloads all end in a stray comma
C30_Witness ==
  /\ Extracted
  /\ fnArg = ReportText(<<"1", ",">>, <<"1", ",">>, <<"xcond_1", ",">>)
  /\ fnRet.err = "length mismatch"

=============================================================================
